---- MODULE Spec2Model ----
(***************************************************************************)
(* Model of TwitterPublishingService (src/src/publishingService.js) and    *)
(* the helpers it calls (src/src/utils.js).  One call of publishTweet,     *)
(* publishScheduledTweet or publishThreadTweets is followed from its       *)
(* entry to its return; every await of the code is one step.               *)
(*                                                                         *)
(* Conventions: 0 stands for an absent token / id (undefined, null, ''),   *)
(* NoText for an undefined text, "none" for an absent result field.        *)
(***************************************************************************)
EXTENDS Integers, Sequences, FiniteSets, TLC

\* ---------------------------------------------------------------- bounds
MaxThread == 2
MaxThreadImages == 1
MaxSortLen == 3
MaxPolls == 3

\* ------------------------------------------------------------- constants
NoText == "undefined"
TweetIds == 1 .. (MaxThread + 1)
OneId == MaxThread + 1      \* the draft publishTweet / publishScheduledTweet is called for
PublishedBase == 50
ProviderBase == 100

VARIABLES
  op,               \* entry point being executed: "none", "one", "sched", "thread"
  options,          \* options / tweet argument of publishTweet, publishScheduledTweet
  threadTweets,     \* threadTweets argument of publishThreadTweets
  pc,               \* position of the call
  attempt,          \* 1: try block of publishTweetWithRefresh, 2: its retry after refresh
  retryCount,       \* retryCount parameter of the running uploadMedia
  accessToken,      \* const accessToken captured at publishTweetWithRefresh entry
  newPair,          \* newAccessToken / newRefreshToken of publishTweetWithRefresh
  umPair,           \* newAccessToken / newRefreshToken of uploadMedia
  mem,              \* twitterCredentials object held in memory
  credStore,        \* twitter_credentials document of the user
  drafts,           \* projects/{p}/tweets/{id} documents
  cur,              \* options object handed to publishTweetWithRefresh
  payload,          \* tweetPayload built by prepareTweetPayload
  pubResult,        \* value returned by publishTweetWithRefresh
  result,           \* value returned by the entry point
  sortedTweets,     \* sortedTweets of publishThreadTweets
  idx,              \* index of the loop over sortedTweets
  previousTweetId,  \* previousTweetId of publishThreadTweets
  results,          \* results array of publishThreadTweets
  issued,           \* provider side: number of token pairs minted so far
  upload,           \* locals of the running uploadMediaToTwitter (mediaUpload.js)
  trace             \* history of the calls made to collaborators

vars == << op, options, threadTweets, pc, attempt, retryCount, accessToken,
           newPair, umPair, mem, credStore, drafts, cur, payload, pubResult, result,
           sortedTweets, idx, previousTweetId, results, issued, upload, trace >>

\* ------------------------------------------------------------ trace events
\* k: kind of call; tok: token presented (0 when none); draft: the tweet the
\* call is made for; id: what the call carries or returns (group id, minted
\* token, provider post id); ok: whether the call returned normally (for
\* "access": isAuthorized); lvl: "post" or "media" for the wrapper that made
\* the call; att: attempt of publishTweetWithRefresh; st: HTTP status or
\* statusCode; txt, med, reply: the post payload (txt also: the access check's
\* error, the text written to the draft, the kind of response the token
\* endpoint gave to a refresh)
Ev(k, tok, id, ok, lvl) ==
  [k |-> k, tok |-> tok, draft |-> 0, id |-> id, ok |-> ok, lvl |-> lvl,
   att |-> 0, st |-> 0, txt |-> "-", med |-> 0, reply |-> 0]

ProviderKinds == {"upload", "post", "refresh"}

CountEv(s, P(_)) == Cardinality({i \in DOMAIN s : P(s[i])})

\* the calls of kind k made so far
Events(k) == {i \in DOMAIN trace : trace[i].k = k}

IsProviderCall(e) == e.k \in ProviderKinds
ProviderCalls == CountEv(trace, IsProviderCall)

\* ------------------------------------------------------------ result values
NoResult == [success |-> FALSE, message |-> "none", code |-> "none",
             status |-> "none", details |-> "none", id |-> 0, returned |-> FALSE]

Res(success, message, code, status, details, id) ==
  [success |-> success, message |-> message, code |-> code,
   status |-> status, details |-> details, id |-> id, returned |-> TRUE]

StatusStr(n) ==
  CASE n = 0 -> "none"
    [] n = 400 -> "400"
    [] n = 401 -> "401"
    [] n = 403 -> "403"
    [] n = 404 -> "404"
    [] n = 500 -> "500"
    [] OTHER -> "other"

\* ------------------------------------------------------------ verifyProjectAccess
\* What the project / workspace documents look like to the reader.
\* (fields the code does not get to read in a scenario are left FALSE)
AllAccessScenarios ==
  [ throws : BOOLEAN, projectExists : BOOLEAN, projectData : BOOLEAN,
    ownerIsUser : BOOLEAN, hasWorkspace : BOOLEAN, workspaceExists : BOOLEAN,
    workspaceData : BOOLEAN, isMember : BOOLEAN ]

AccessScenarios ==
  { s \in AllAccessScenarios :
      /\ s.throws => ~s.projectExists
      /\ ~s.projectExists => ~s.projectData
      /\ ~s.projectData => ~s.ownerIsUser /\ ~s.hasWorkspace
      /\ s.ownerIsUser => ~s.hasWorkspace
      /\ ~s.hasWorkspace => ~s.workspaceExists
      /\ ~s.workspaceExists => ~s.workspaceData
      /\ ~s.workspaceData => ~s.isMember }

Access(isAuthorized, error, statusCode) ==
  [isAuthorized |-> isAuthorized, error |-> error, statusCode |-> statusCode]

verifyProjectAccess(s) ==
  IF s.throws THEN Access(FALSE, "Error verifying project access", 500)
  ELSE IF ~s.projectExists THEN Access(FALSE, "Project not found", 404)
  ELSE IF ~s.projectData THEN Access(FALSE, "Project data is empty", 404)
  ELSE IF s.ownerIsUser THEN Access(TRUE, "none", 0)
  ELSE IF s.hasWorkspace /\ ~s.workspaceExists THEN Access(FALSE, "Workspace not found", 404)
  ELSE IF s.hasWorkspace /\ ~s.workspaceData THEN Access(FALSE, "Workspace data is empty", 404)
  ELSE IF s.hasWorkspace /\ s.isMember THEN Access(TRUE, "none", 0)
  ELSE Access(FALSE, "You do not have permission to access this project", 403)

\* ------------------------------------------------------------ error classification
\* An Error object as the catch blocks see it: code / status / statusCode
\* (0 when unset) and whether its message contains the substring '401'.
Err(code, status, statusCode, msg401, message) ==
  [code |-> code, status |-> status, statusCode |-> statusCode,
   msg401 |-> msg401, message |-> message]

isAuthError(e) ==
  e.code = 401 \/ e.msg401 \/ e.status = 401 \/ e.statusCode = 401

\* utils.js publishTweet: error.code = response.status, message from the body
PostStatuses == {401, 403, 500}
PostError(status, msg401) ==
  Err(status, 0, 0, msg401, IF msg401 THEN "provider message with 401" ELSE "provider message")

\* ------------------------------------------------------------ stores and inputs
NoCreds == [exists |-> FALSE, accessToken |-> 0, refreshToken |-> 0, userId |-> FALSE]

\* twitter_credentials document: tokens of generation 1, 0 when the field is missing
StoredCreds ==
  {NoCreds, [exists |-> TRUE, accessToken |-> 0, refreshToken |-> 1, userId |-> TRUE]} \cup
  [exists : {TRUE}, accessToken : {1}, refreshToken : {0, 1}, userId : BOOLEAN]

NoDraft == [exists |-> FALSE, text |-> NoText, imageUrl |-> FALSE, status |-> "draft",
            publishedTweetId |-> 0, publishedText |-> NoText]

\* a tweet document: text / imageUrl keys may be missing from the document
StoredDrafts ==
  {NoDraft} \cup
  [exists : {TRUE}, text : {NoText, "b"}, imageUrl : BOOLEAN, status : {"draft"},
   publishedTweetId : {0}, publishedText : {NoText}]

\* the documents of the tweets of a thread, not yet published or published
\* by an earlier call
ThreadDraft == [NoDraft EXCEPT !.exists = TRUE, !.text = "a"]
PublishedDraft(i) ==
  [ThreadDraft EXCEPT !.status = "published", !.publishedTweetId = PublishedBase + i,
                      !.publishedText = "a"]

\* group ids a draft can be tagged with (0: no groupId)
DisabledGroup == 1
EnabledGroup == 2
UnflaggedGroup == 3
MissingGroup == 4
GroupIds == {DisabledGroup, EnabledGroup, UnflaggedGroup, MissingGroup}

\* options of publishTweet / tweet of publishScheduledTweet
\* (tweetId 0, projectId FALSE, text NoText, groupId 0: field missing)
OneOptions ==
  [tweetId : {0, OneId}, projectId : BOOLEAN, text : {NoText, "a"},
   groupId : {0} \cup GroupIds,
   imageUrl : BOOLEAN, mediaIds : BOOLEAN, replyToTweetId : {0}, userId : {TRUE}]

SchedTweets ==
  [tweetId : {OneId}, projectId : {TRUE}, text : {NoText, "a"},
   groupId : {0, DisabledGroup, EnabledGroup},
   imageUrl : BOOLEAN, mediaIds : {FALSE}, replyToTweetId : {0}, userId : BOOLEAN]

\* threadPosition of a document or tweet object that has none
NoPos == -1

\* a tweet of a thread as processThreadTweet builds it (plus the group tag of
\* the draft, which processThreadTweet does not copy)
processThreadTweet(data, i, pos, image, group) ==
  [tweetId |-> i, text |-> data.text,
   threadPosition |-> IF pos = NoPos THEN 0 ELSE pos,
   status |-> data.status, publishedTweetId |-> data.publishedTweetId,
   imageUrl |-> image, groupId |-> group]

\* data.threadPosition of the documents handed to processThreadTweet
Positions == {NoPos, 0, 1}

\* threads of n tweets built from the documents d
ThreadsOfLen(d, n) ==
  { [i \in 1 .. n |-> processThreadTweet(d[i], i, f[i].pos, f[i].img, g)] :
      f \in [1 .. n -> [pos : Positions, img : BOOLEAN]],
      g \in {0, DisabledGroup} }

ImageCount(t) == Cardinality({i \in DOMAIN t : t[i].imageUrl})

ThreadInputs(d) ==
  { t \in UNION { ThreadsOfLen(d, n) : n \in 0 .. MaxThread } :
      ImageCount(t) <= MaxThreadImages }

\* ------------------------------------------------------------ sort (stable, by threadPosition || 0)
\* a comparator that reads threadPosition as it is
PosAsIs(t) == t.threadPosition

\* "a.threadPosition || 0" of the comparator
Pos(t) == IF t.threadPosition = NoPos THEN 0 ELSE t.threadPosition

RECURSIVE Insert(_, _)
Insert(s, x) ==
  IF s = << >> THEN << x >>
  ELSE IF Pos(x) < Pos(s[Len(s)])
       THEN Append(Insert(SubSeq(s, 1, Len(s) - 1), x), s[Len(s)])
       ELSE Append(s, x)

RECURSIVE SortTweets(_)
SortTweets(s) ==
  IF s = << >> THEN << >>
  ELSE Insert(SortTweets(SubSeq(s, 1, Len(s) - 1)), s[Len(s)])

\* ------------------------------------------------------------ getTweetGroup
\* the tweet_groups collection; isEnabled is "true", "false" or "undefined"
GroupDocs ==
  [g \in GroupIds |->
     CASE g = DisabledGroup -> [exists |-> TRUE, isEnabled |-> "false"]
       [] g = EnabledGroup -> [exists |-> TRUE, isEnabled |-> "true"]
       [] g = UnflaggedGroup -> [exists |-> TRUE, isEnabled |-> "undefined"]
       [] OTHER -> [exists |-> FALSE, isEnabled |-> "undefined"]]

getTweetGroup(groupId) == GroupDocs[groupId]

\* ------------------------------------------------------------ getTwitterCredentials
\* getTwitterCredentials that hands back whatever it read, a missing document included
getTwitterCredentialsUnchecked(doc, throws) ==
  IF throws THEN NoCreds
  ELSE IF doc.exists /\ doc.accessToken = 0 THEN NoCreds
  ELSE [doc EXCEPT !.exists = TRUE]

getTwitterCredentials(doc, throws) ==
  IF throws THEN NoCreds
  ELSE IF ~doc.exists THEN NoCreds
  ELSE IF doc.accessToken = 0 THEN NoCreds
  ELSE doc

\* ------------------------------------------------------------ publishTweetWithRefresh results
MediaId == 7
CallerMedia == 8

ApiError(e) ==
  Res(FALSE, "Failed to publish tweet", "api_error",
      StatusStr(IF e.status # 0 THEN e.status ELSE e.statusCode), e.message, 0)

TokenExpired ==
  Res(FALSE, "Twitter authentication failed", "token_expired", "none",
      "Your Twitter connection has expired. Please reconnect your Twitter account.", 0)

Published(id, att) ==
  Res(TRUE, IF att = 1 THEN "Tweet published successfully"
            ELSE "Tweet published successfully after refreshing credentials",
      "none", "none", "none", id)

\* errors thrown inside publishTweetWithRefresh by its callees
TypeErrorText == Err(0, 0, 0, FALSE, "Cannot read properties of undefined")
UploadFailed == Err(0, 0, 0, FALSE, "Error uploading media")
UploadRefreshFailed == Err(0, 0, 0, FALSE, "Error refreshing Twitter token during media upload")

\* Catch with a retry that is itself retried on an auth error
CatchRetryAgain(e, att, m) ==
  IF isAuthError(e) /\ m.refreshToken # 0
  THEN [pc |-> "p_refresh", pubResult |-> NoResult]
  ELSE IF att = 1 THEN [pc |-> "ret", pubResult |-> ApiError(e)]
  ELSE [pc |-> "ret", pubResult |-> TokenExpired]

\* the catch blocks of publishTweetWithRefresh: where control goes when e is
\* thrown in attempt att with in-memory credentials m
Catch(e, att, m) ==
  IF att = 1
  THEN IF isAuthError(e) /\ m.refreshToken # 0
       THEN [pc |-> "p_refresh", pubResult |-> NoResult]
       ELSE [pc |-> "ret", pubResult |-> ApiError(e)]
  ELSE [pc |-> "ret", pubResult |-> TokenExpired]

\* payload of prepareTweetPayload for options c once media (0: none uploaded) is known
Payload(c, media) ==
  [text |-> c.text,
   media |-> IF media # 0 THEN media ELSE IF c.mediaIds THEN CallerMedia ELSE 0,
   reply |-> c.replyToTweetId]

\* prepareTweetPayload up to its first await: upload when imageUrl, accessToken
\* and twitterCredentials are all there, else the payload is ready
Prepare(c, tok) ==
  IF c.imageUrl /\ tok # 0
  THEN [pc |-> "um_run", pubResult |-> NoResult]
  ELSE [pc |-> "post", pubResult |-> NoResult]

\* entry of publishTweetWithRefresh up to its first await
Enter(c, m) ==
  IF c.text = NoText THEN Catch(TypeErrorText, 1, m)
  ELSE Prepare(c, m.accessToken)

NoPayload == [text |-> NoText, media |-> 0, reply |-> 0]
NoCur == [tweetId |-> 0, text |-> NoText, imageUrl |-> FALSE, mediaIds |-> FALSE,
          replyToTweetId |-> 0]
NoPair == [accessToken |-> 0, refreshToken |-> 0]

\* uploadMediaToTwitter not running: mediaId as returned by INIT (0: none yet),
\* ret "none" / "value" (mediaId returned) / "error" (an Error thrown)
NoUpload == [mediaId |-> 0, ret |-> "none"]

\* ------------------------------------------------------------ initial state
Init ==
  /\ op = "none"
  /\ options \in {[tweetId |-> 0, projectId |-> FALSE, text |-> NoText, groupId |-> 0,
                   imageUrl |-> FALSE, mediaIds |-> FALSE, replyToTweetId |-> 0,
                   userId |-> FALSE]}
  /\ threadTweets = << >>
  /\ pc = "idle"
  /\ attempt = 0
  /\ retryCount = 0
  /\ accessToken = 0
  /\ newPair = NoPair
  /\ umPair = NoPair
  /\ mem = NoCreds
  /\ credStore \in StoredCreds
  /\ \E d \in StoredDrafts, P \in SUBSET (1 .. MaxThread) :
       /\ d = NoDraft \/ P = {}
       /\ drafts = [i \in TweetIds |-> IF i = OneId THEN d
                                        ELSE IF i \in P THEN PublishedDraft(i)
                                        ELSE ThreadDraft]
  /\ cur = NoCur
  /\ payload = NoPayload
  /\ pubResult = NoResult
  /\ result = NoResult
  /\ sortedTweets = << >>
  /\ idx = 0
  /\ previousTweetId = 0
  /\ results = << >>
  /\ issued = 1
  /\ upload = NoUpload
  /\ trace = << >>

\* ------------------------------------------------------------ results of the entry points
InternalError == Res(FALSE, "Internal server error", "none", "none", "error.message", 0)
SchedResult(b) == Res(b, "boolean", "none", "none", "none", 0)

\* an outer catch that lets the exception go: the call returns nothing
OuterCatchRethrows == NoResult

\* what the outer catch of the running entry point returns
OuterCatch ==
  CASE op = "one" -> InternalError
    [] op = "sched" -> SchedResult(FALSE)
    [] OTHER -> Res(FALSE, "Failed to publish thread", "none", "none", "error.message", 0)

\* the unauthorized result without the status code of the access check
UnauthorizedNoCode(a) ==
  Res(FALSE, a.error, "none", "none", a.error, 0)

Unauthorized(a) ==
  IF op = "one"
  THEN Res(FALSE, a.error, StatusStr(a.statusCode), "none", a.error, 0)
  ELSE Res(FALSE, a.error, "none",
           StatusStr(IF a.statusCode # 0 THEN a.statusCode ELSE 403), a.error, 0)

GroupDisabled ==
  IF op = "one"
  THEN Res(FALSE, "Group is disabled. Tweet will not be published.", "none", "none",
           "Group is disabled.", 0)
  ELSE SchedResult(FALSE)

CredentialsNotFound ==
  IF op = "one"
  THEN Res(FALSE, "Twitter credentials not found", "credentials_not_found", "none",
           "Please connect your Twitter account in settings", 0)
  ELSE Res(FALSE, "Twitter credentials not found", "none", "404",
           "No Twitter credentials available for this user", 0)

\* the final block of publishThreadTweets (allSucceeded, publishedCount, stoppedEarly)
IsSuccess(r) == r.success
ThreadResult(rs, total) ==
  LET allSucceeded == \A i \in DOMAIN rs : rs[i].success
      publishedCount == CountEv(rs, IsSuccess)
      stoppedEarly == publishedCount < total /\ publishedCount > 0
  IN Res(allSucceeded,
         IF allSucceeded THEN "Thread published successfully"
         ELSE IF stoppedEarly THEN "Thread publishing stopped"
         ELSE "Failed to publish thread",
         "none", "none", "none", publishedCount)

\* the head of the for loop of publishThreadTweets from index i on: published
\* tweets are skipped and hand over their id; the first unpublished one is next
\* a loop head without the skip of published tweets
LoopHeadNoSkip(st, i, prev) == [idx |-> i, prev |-> prev]

RECURSIVE LoopHead(_, _, _)
LoopHead(st, i, prev) ==
  IF i > Len(st) THEN [idx |-> i, prev |-> prev]
  ELSE IF st[i].status = "published" THEN LoopHead(st, i + 1, st[i].publishedTweetId)
  ELSE [idx |-> i, prev |-> prev]

\* publishOptions that never link to the previous tweet
PublishOptionsUnlinked(tweet, prev) ==
  [tweetId |-> tweet.tweetId, text |-> tweet.text, imageUrl |-> tweet.imageUrl,
   mediaIds |-> FALSE, replyToTweetId |-> 0]

\* publishOptions of the loop body
PublishOptions(tweet, prev) ==
  [tweetId |-> tweet.tweetId, text |-> tweet.text, imageUrl |-> tweet.imageUrl,
   mediaIds |-> FALSE, replyToTweetId |-> prev]

\* options object of publishTweet: the caller's fields, overwritten by the
\* fields of the stored document ("...tweetDoc.data()")
MergedOptions(o, doc) ==
  [tweetId |-> o.tweetId,
   text |-> IF doc.text # NoText THEN doc.text ELSE o.text,
   imageUrl |-> doc.imageUrl \/ o.imageUrl,
   mediaIds |-> o.mediaIds,
   replyToTweetId |-> o.replyToTweetId]

SchedOptions(t) ==
  [tweetId |-> t.tweetId, text |-> t.text, imageUrl |-> t.imageUrl,
   mediaIds |-> t.mediaIds, replyToTweetId |-> t.replyToTweetId]

\* ------------------------------------------------------------ frames
callFrame == << op, options, threadTweets >>
ptwrFrame == << attempt, retryCount, accessToken, newPair, umPair, cur, payload, pubResult >>
threadFrame == << sortedTweets, idx, previousTweetId, results >>
storeFrame == << credStore, drafts, issued >>

\* start publishTweetWithRefresh on options c with credentials m
StartPTWR(c, m) ==
  /\ cur' = c
  /\ mem' = m
  /\ accessToken' = m.accessToken
  /\ attempt' = 1
  /\ retryCount' = 0
  /\ newPair' = NoPair
  /\ umPair' = NoPair
  /\ payload' = IF Enter(c, m).pc = "post" THEN Payload(c, 0) ELSE NoPayload
  /\ pubResult' = Enter(c, m).pubResult
  /\ pc' = Enter(c, m).pc

Finish(r) ==
  /\ result' = r
  /\ pc' = "done"

\* leave the loop of publishThreadTweets with results rs
FinishThread(rs) ==
  /\ results' = rs
  /\ Finish(ThreadResult(rs, Len(sortedTweets)))

\* ------------------------------------------------------------ publishTweet (publishOne)
\* the single-post calls are followed with the documents of the thread unpublished
ThreadUntouched == \A i \in 1 .. MaxThread : drafts[i] = ThreadDraft

\* validation that forgets the text
MissingIds(o) == o.tweetId = 0 \/ ~o.projectId

\* !options.tweetId || !options.projectId || !options.text
MissingFields(o) == o.tweetId = 0 \/ ~o.projectId \/ o.text = NoText

CallPublishOne ==
  /\ pc = "idle"
  /\ ThreadUntouched
  /\ \E o \in OneOptions :
       /\ op' = "one"
       /\ options' = o
       /\ IF MissingFields(o)
          THEN Finish(Res(FALSE, "Missing required fields", "none", "none",
                          "tweetId, projectId, and text are required", 0))
          ELSE pc' = "access" /\ result' = result
  /\ UNCHANGED << threadTweets, mem, trace >>
  /\ UNCHANGED << ptwrFrame, threadFrame, storeFrame >>
  /\ UNCHANGED upload

\* await this.verifyProjectAccess(...) in publishTweet and publishThreadTweets
VerifyAccess ==
  /\ pc = "access"
  /\ \E s \in AccessScenarios :
       LET a == verifyProjectAccess(s) IN
       /\ trace' = Append(trace, [Ev("access", 0, 0, a.isAuthorized, "-")
                                     EXCEPT !.st = a.statusCode, !.txt = a.error])
       /\ IF ~a.isAuthorized THEN Finish(Unauthorized(a))
          ELSE /\ result' = result
               /\ pc' = IF op = "one" /\ options.groupId # 0 THEN "group" ELSE "creds"
  /\ UNCHANGED << callFrame, mem >>
  /\ UNCHANGED << ptwrFrame, threadFrame, storeFrame >>
  /\ UNCHANGED upload

\* await getTweetGroup(groupId) in publishTweet and publishScheduledTweet
CheckGroup ==
  /\ pc = "group"
  /\ \E throws \in BOOLEAN :
       LET group == getTweetGroup(options.groupId) IN
       /\ trace' = Append(trace, Ev("group", 0, options.groupId, ~throws, "-"))
       /\ IF throws
          THEN Finish(OuterCatch) /\ UNCHANGED << mem, ptwrFrame >>
          ELSE IF group.exists /\ group.isEnabled = "false"
          THEN Finish(GroupDisabled) /\ UNCHANGED << mem, ptwrFrame >>
          ELSE IF op = "one"
          THEN pc' = "creds" /\ UNCHANGED << result, mem, ptwrFrame >>
          ELSE /\ StartPTWR(SchedOptions(options), [mem EXCEPT !.userId = options.userId])
               /\ result' = result
  /\ UNCHANGED << callFrame, threadFrame, storeFrame >>
  /\ UNCHANGED upload

\* await this.getTwitterCredentials(userId) in publishTweet and publishThreadTweets
GetCreds ==
  /\ pc = "creds"
  /\ \E throws \in BOOLEAN :
       LET c == getTwitterCredentials(credStore, throws)
           st == SortTweets(threadTweets)
           h == LoopHead(st, 1, 0)
       IN
       /\ trace' = Append(trace, Ev("credRead", 0, 0, ~throws, "-"))
       /\ IF ~c.exists
          THEN Finish(CredentialsNotFound) /\ UNCHANGED << mem, ptwrFrame, threadFrame >>
          ELSE IF op = "one"
          THEN /\ mem' = c
               /\ pc' = "doc"
               /\ UNCHANGED << result, ptwrFrame, threadFrame >>
          ELSE IF Len(threadTweets) = 0
          THEN /\ mem' = c
               /\ Finish(Res(FALSE, "No tweets provided for the thread", "none", "400",
                             "Thread must contain at least one tweet", 0))
               /\ UNCHANGED << ptwrFrame, threadFrame >>
          ELSE /\ sortedTweets' = st
               /\ idx' = h.idx
               /\ previousTweetId' = h.prev
               /\ IF h.idx > Len(st)
                  THEN /\ FinishThread(<< >>)
                       /\ mem' = c
                       /\ UNCHANGED ptwrFrame
                  ELSE /\ StartPTWR(PublishOptions(st[h.idx], h.prev), c)
                       /\ UNCHANGED << result, results >>
  /\ UNCHANGED << callFrame, storeFrame >>
  /\ UNCHANGED upload

\* await db...tweets.doc(tweetId).get() in publishTweet
GetDoc ==
  /\ pc = "doc"
  /\ \E throws \in BOOLEAN :
       LET doc == drafts[options.tweetId] IN
       /\ trace' = Append(trace, [Ev("docRead", 0, 0, ~throws, "-")
                                     EXCEPT !.draft = options.tweetId])
       /\ IF throws
          THEN Finish(OuterCatch) /\ UNCHANGED << mem, ptwrFrame >>
          ELSE IF ~doc.exists
          THEN /\ Finish(Res(FALSE, "Tweet not found", "none", "none",
                             "The specified tweet does not exist", 0))
               /\ UNCHANGED << mem, ptwrFrame >>
          ELSE /\ StartPTWR(MergedOptions(options, doc), [mem EXCEPT !.userId = TRUE])
               /\ result' = result
  /\ UNCHANGED << callFrame, threadFrame, storeFrame >>
  /\ UNCHANGED upload

\* ------------------------------------------------------------ publishScheduledTweet
CallScheduled ==
  /\ pc = "idle"
  /\ ThreadUntouched
  /\ credStore.exists /\ credStore.accessToken # 0   \* the caller hands in a loaded record
  /\ \E t \in SchedTweets :
       /\ op' = "sched"
       /\ options' = t
       /\ IF t.groupId # 0
          THEN /\ pc' = "group"
               /\ mem' = credStore
               /\ UNCHANGED ptwrFrame
          ELSE StartPTWR(SchedOptions(t), [credStore EXCEPT !.userId = t.userId])
  /\ UNCHANGED << threadTweets, result, trace >>
  /\ UNCHANGED << threadFrame, storeFrame >>
  /\ UNCHANGED upload

\* ------------------------------------------------------------ publishThreadTweets
CallThread ==
  /\ pc = "idle"
  /\ ~drafts[OneId].exists   \* the call is followed with the other document absent
  /\ \E t \in ThreadInputs(drafts) :
       /\ op' = "thread"
       /\ threadTweets' = t
  /\ pc' = "access"
  /\ UNCHANGED << options, mem, result, trace >>
  /\ UNCHANGED << ptwrFrame, threadFrame, storeFrame >>
  /\ UNCHANGED upload

\* ------------------------------------------------------------ uploadMedia
UploadOutcomes == {"ok", "error401", "error"}

\* a throw of uploadMedia that keeps the '401' of the provider's error in its message
UploadThrowsKeeps401(e) ==
  /\ pc' = Catch([e EXCEPT !.msg401 = TRUE], attempt, mem).pc
  /\ pubResult' = Catch([e EXCEPT !.msg401 = TRUE], attempt, mem).pubResult

\* where a throw of uploadMedia lands: the catch blocks of publishTweetWithRefresh
UploadThrows(e) ==
  /\ pc' = Catch(e, attempt, mem).pc
  /\ pubResult' = Catch(e, attempt, mem).pubResult

\* await uploadMediaToTwitter(imageUrl, accessToken) and the catch behind it
UploadRun ==
  /\ pc = "um_run"
  /\ \E out \in UploadOutcomes :
       LET e == Err(0, 0, 0, out = "error401", "media upload failed") IN
       /\ trace' = Append(trace, [Ev("upload", mem.accessToken, 0, out = "ok", "media")
                                     EXCEPT !.draft = cur.tweetId, !.att = attempt])
       /\ IF out = "ok"
          THEN /\ payload' = Payload(cur, MediaId)
               /\ pc' = "post"
               /\ pubResult' = pubResult
          ELSE IF isAuthError(e) /\ mem.refreshToken # 0 /\ retryCount < 2
          THEN /\ pc' = "um_refresh"
               /\ UNCHANGED << payload, pubResult >>
          ELSE /\ UploadThrows(UploadFailed)
               /\ payload' = payload
  /\ UNCHANGED << callFrame, mem, result, attempt, retryCount, accessToken, newPair, umPair, cur >>
  /\ UNCHANGED << threadFrame, storeFrame >>
  /\ UNCHANGED upload

\* refreshTwitterAccessToken: one token exchange; fails on a non-success status
\* and on a response that lacks either token
RefreshOutcomes == {"ok", "http_error", "no_access_token", "no_refresh_token"}

\* a refresh client that makes do with a response that lacks the refresh token
refreshAcceptsIncomplete(out, n) ==
  IF out = "ok" THEN [ok |-> TRUE, accessToken |-> n + 1, refreshToken |-> n + 1]
  ELSE IF out = "no_refresh_token" THEN [ok |-> TRUE, accessToken |-> n + 1, refreshToken |-> 0]
  ELSE [ok |-> FALSE, accessToken |-> 0, refreshToken |-> 0]

refreshTwitterAccessToken(out, n) ==
  IF out = "ok" THEN [ok |-> TRUE, accessToken |-> n + 1, refreshToken |-> n + 1]
  ELSE [ok |-> FALSE, accessToken |-> 0, refreshToken |-> 0]

\* await refreshTwitterAccessToken(twitterCredentials) in uploadMedia
UploadRefresh ==
  /\ pc = "um_refresh"
  /\ \E out \in RefreshOutcomes :
       LET r == refreshTwitterAccessToken(out, issued) IN
       /\ trace' = Append(trace, [Ev("refresh", mem.refreshToken, r.accessToken, r.ok, "media")
                                     EXCEPT !.draft = cur.tweetId, !.att = attempt,
                                            !.txt = out])
       /\ issued' = IF r.ok THEN issued + 1 ELSE issued
       /\ IF r.ok /\ mem.userId
          THEN /\ umPair' = [accessToken |-> r.accessToken, refreshToken |-> r.refreshToken]
               /\ pc' = "um_persist"
               /\ pubResult' = pubResult
          ELSE /\ UploadThrows(UploadRefreshFailed)
               /\ umPair' = umPair
  /\ UNCHANGED << callFrame, mem, result, attempt, retryCount, accessToken, newPair, cur, payload >>
  /\ UNCHANGED << threadFrame, credStore, drafts >>
  /\ UNCHANGED upload

\* updateTwitterCredentials writing the access token only
updateAccessTokenOnly(doc, pair) ==
  [doc EXCEPT !.accessToken = pair.accessToken]

\* updateTwitterCredentials: the document's token pair is replaced
updateTwitterCredentials(doc, pair) ==
  [doc EXCEPT !.accessToken = pair.accessToken, !.refreshToken = pair.refreshToken]

\* await this.updateTwitterCredentials(...) in uploadMedia, then the in-memory
\* update and the recursive call
UploadPersist ==
  /\ pc = "um_persist"
  /\ \E ok \in BOOLEAN :
       /\ trace' = Append(trace, [Ev("credWrite", umPair.accessToken, umPair.refreshToken, ok, "media")
                                     EXCEPT !.draft = cur.tweetId, !.att = attempt])
       /\ IF ok
          THEN /\ credStore' = updateTwitterCredentials(credStore, umPair)
               /\ mem' = [mem EXCEPT !.accessToken = umPair.accessToken,
                                     !.refreshToken = umPair.refreshToken]
               /\ retryCount' = retryCount + 1
               /\ pc' = "um_run"
               /\ pubResult' = pubResult
          ELSE /\ UploadThrows(UploadRefreshFailed)
               /\ UNCHANGED << credStore, mem, retryCount >>
  /\ UNCHANGED << callFrame, result, attempt, accessToken, newPair, umPair, cur, payload >>
  /\ UNCHANGED << threadFrame, drafts, issued >>
  /\ UNCHANGED upload

\* ------------------------------------------------------------ publishTweetWithRefresh
\* responses of the post endpoint: accepted with an id, accepted without one,
\* or rejected with a status and a message that may contain '401'
PostOutcomes ==
  {[ok |-> TRUE, hasId |-> TRUE, status |-> 0, msg401 |-> FALSE],
   [ok |-> TRUE, hasId |-> FALSE, status |-> 0, msg401 |-> FALSE]} \cup
  [ok : {FALSE}, hasId : {FALSE}, status : PostStatuses, msg401 : BOOLEAN]

IsAcceptedPost(e) == e.k = "post" /\ e.ok
NextPostId == ProviderBase + 1 + CountEv(trace, IsAcceptedPost)

\* await publishTweet(accessToken, tweetPayload): in the try block with the
\* token captured on entry, in the retry with newAccessToken
Post ==
  /\ pc = "post"
  /\ \E out \in PostOutcomes :
       LET tok == IF attempt = 1 THEN accessToken ELSE newPair.accessToken
           id == IF out.hasId THEN NextPostId ELSE 0
           ev == [Ev("post", tok, id, out.ok, "post") EXCEPT
                    !.draft = cur.tweetId, !.att = attempt,
                    !.st = IF out.ok THEN 200 ELSE out.status,
                    !.txt = payload.text, !.med = payload.media,
                    !.reply = payload.reply]
       IN
       /\ trace' = Append(trace, ev)
       /\ IF out.ok
          THEN /\ pubResult' = Published(id, attempt)
               /\ pc' = "ret"
          ELSE /\ pc' = Catch(PostError(out.status, out.msg401), attempt, mem).pc
               /\ pubResult' = Catch(PostError(out.status, out.msg401), attempt, mem).pubResult
  /\ UNCHANGED << callFrame, mem, result, attempt, retryCount, accessToken, newPair, umPair, cur, payload >>
  /\ UNCHANGED << threadFrame, storeFrame >>
  /\ UNCHANGED upload

\* await refreshTwitterAccessToken(twitterCredentials) in the catch block
PostRefresh ==
  /\ pc = "p_refresh"
  /\ \E out \in RefreshOutcomes :
       LET r == refreshTwitterAccessToken(out, issued) IN
       /\ trace' = Append(trace, [Ev("refresh", mem.refreshToken, r.accessToken, r.ok, "post")
                                     EXCEPT !.draft = cur.tweetId, !.att = attempt,
                                            !.txt = out])
       /\ issued' = IF r.ok THEN issued + 1 ELSE issued
       /\ IF r.ok /\ mem.userId
          THEN /\ newPair' = [accessToken |-> r.accessToken, refreshToken |-> r.refreshToken]
               /\ pc' = "p_persist"
               /\ pubResult' = pubResult
          ELSE /\ pc' = "ret"
               /\ pubResult' = TokenExpired
               /\ newPair' = newPair
  /\ UNCHANGED << callFrame, mem, result, attempt, retryCount, accessToken, umPair, cur, payload >>
  /\ UNCHANGED << threadFrame, credStore, drafts >>
  /\ UNCHANGED upload

\* await this.updateTwitterCredentials(...) in the catch block, then
\* prepareTweetPayload again with accessToken: newAccessToken
PostPersist ==
  /\ pc = "p_persist"
  /\ \E ok \in BOOLEAN :
       /\ trace' = Append(trace, [Ev("credWrite", newPair.accessToken, newPair.refreshToken, ok, "post")
                                     EXCEPT !.draft = cur.tweetId, !.att = attempt])
       /\ IF ok
          THEN /\ credStore' = updateTwitterCredentials(credStore, newPair)
               /\ attempt' = 2
               /\ retryCount' = 0
               /\ pc' = Prepare(cur, newPair.accessToken).pc
               /\ payload' = IF Prepare(cur, newPair.accessToken).pc = "post"
                             THEN Payload(cur, 0) ELSE payload
               /\ pubResult' = pubResult
          ELSE /\ pc' = "ret"
               /\ pubResult' = TokenExpired
               /\ UNCHANGED << credStore, attempt, retryCount, payload >>
  /\ UNCHANGED << callFrame, mem, result, accessToken, newPair, umPair, cur >>
  /\ UNCHANGED << threadFrame, drafts, issued >>
  /\ UNCHANGED upload

\* ------------------------------------------------------------ back in the caller
\* a loop that goes on to the next tweet whatever the result says
LoopContinuesAlways(r) == r.returned

\* "if (result.success && result.twitterTweetId)" of the loop body: the tweet
\* is marked and the loop goes on; otherwise the loop is left
LoopContinues(r) == r.success /\ r.id # 0

\* publishTweetWithRefresh has returned: the caller looks at the result
Return ==
  /\ pc = "ret"
  /\ IF op = "thread"
     THEN LET entry == [tweetId |-> cur.tweetId, publishedTweetId |-> pubResult.id,
                        success |-> pubResult.success, message |-> pubResult.message]
          IN IF LoopContinues(pubResult)
             THEN /\ results' = Append(results, entry)
                  /\ previousTweetId' = pubResult.id
                  /\ pc' = "mark"
                  /\ result' = result
             ELSE /\ FinishThread(Append(results, entry))
                  /\ previousTweetId' = previousTweetId
     ELSE /\ IF pubResult.success /\ pubResult.id # 0
             THEN pc' = "mark" /\ result' = result
             ELSE Finish(IF op = "one" THEN pubResult ELSE SchedResult(FALSE))
          /\ UNCHANGED << results, previousTweetId >>
  /\ UNCHANGED << callFrame, mem, trace, sortedTweets, idx >>
  /\ UNCHANGED << ptwrFrame, storeFrame >>
  /\ UNCHANGED upload

\* updateTweetStatus that stores the text where the provider id belongs
updateTweetStatusNoId(doc, publishedTweetId, publishedText) ==
  [doc EXCEPT !.status = "published", !.publishedTweetId = 0,
              !.publishedText = publishedText]

\* updateTweetStatus: the document is marked published
updateTweetStatus(doc, publishedTweetId, publishedText) ==
  [doc EXCEPT !.status = "published", !.publishedTweetId = publishedTweetId,
              !.publishedText = publishedText]

\* text handed to updateTweetStatus by the running entry point
TextToRecord ==
  IF op = "thread" THEN sortedTweets[idx].text ELSE options.text

\* await this.updateTweetStatus(...) and what follows it in the caller
MarkDraft ==
  /\ pc = "mark"
  /\ \E ok \in BOOLEAN :
       LET h == LoopHead(sortedTweets, idx + 1, previousTweetId) IN
       /\ trace' = Append(trace, [Ev("draftWrite", 0, pubResult.id, ok, "-")
                                     EXCEPT !.draft = cur.tweetId, !.txt = TextToRecord])
       /\ drafts' = IF ok
                    THEN [drafts EXCEPT ![cur.tweetId] =
                            updateTweetStatus(@, pubResult.id, TextToRecord)]
                    ELSE drafts
       /\ IF op # "thread"
          THEN /\ Finish(IF ~ok THEN OuterCatch
                         ELSE IF op = "one" THEN pubResult ELSE SchedResult(TRUE))
               /\ UNCHANGED << mem, ptwrFrame, threadFrame >>
          ELSE IF ~ok
          THEN /\ FinishThread(Append(results,
                    [tweetId |-> cur.tweetId, publishedTweetId |-> 0, success |-> FALSE,
                     message |-> "Tweet publishing failed"]))
               /\ UNCHANGED << mem, ptwrFrame, sortedTweets, idx, previousTweetId >>
          ELSE /\ idx' = h.idx
               /\ previousTweetId' = h.prev
               /\ sortedTweets' = sortedTweets
               /\ IF h.idx > Len(sortedTweets)
                  THEN FinishThread(results) /\ UNCHANGED << mem, ptwrFrame >>
                  ELSE /\ StartPTWR(PublishOptions(sortedTweets[h.idx], h.prev), mem)
                       /\ UNCHANGED << result, results >>
  /\ UNCHANGED << callFrame, credStore, issued >>
  /\ UNCHANGED upload

\* ------------------------------------------------------------ specification
Next ==
  \/ CallPublishOne
  \/ CallScheduled
  \/ CallThread
  \/ VerifyAccess
  \/ CheckGroup
  \/ GetCreds
  \/ GetDoc
  \/ UploadRun
  \/ UploadRefresh
  \/ UploadPersist
  \/ Post
  \/ PostRefresh
  \/ PostPersist
  \/ Return
  \/ MarkDraft

Spec == Init /\ [][Next]_vars

\* ------------------------------------------------------------ the sort on its own
\* publishThreadTweets at its sort, called with a thread of tweet objects of
\* any caller: up to MaxSortLen tweets, threadPosition missing or 0..2
SortPositions == {NoPos, 0, 1, 2}

SortInputs ==
  UNION { { [i \in 1 .. n |->
               [tweetId |-> i, text |-> "a", threadPosition |-> f[i], status |-> "draft",
                publishedTweetId |-> 0, imageUrl |-> FALSE, groupId |-> 0]] :
            f \in [1 .. n -> SortPositions] } : n \in 1 .. MaxSortLen }

SortInit ==
  /\ op = "thread"
  /\ options = [tweetId |-> 0, projectId |-> FALSE, text |-> NoText, groupId |-> 0,
                imageUrl |-> FALSE, mediaIds |-> FALSE, replyToTweetId |-> 0,
                userId |-> FALSE]
  /\ threadTweets \in SortInputs
  /\ pc = "sort"
  /\ attempt = 0
  /\ retryCount = 0
  /\ accessToken = 0
  /\ newPair = NoPair
  /\ umPair = NoPair
  /\ mem = [exists |-> TRUE, accessToken |-> 1, refreshToken |-> 1, userId |-> FALSE]
  /\ credStore = [exists |-> TRUE, accessToken |-> 1, refreshToken |-> 1, userId |-> FALSE]
  /\ drafts = [i \in TweetIds |-> IF i = OneId THEN NoDraft ELSE ThreadDraft]
  /\ cur = NoCur
  /\ payload = NoPayload
  /\ pubResult = NoResult
  /\ result = NoResult
  /\ sortedTweets = << >>
  /\ idx = 0
  /\ previousTweetId = 0
  /\ results = << >>
  /\ issued = 1
  /\ upload = NoUpload
  /\ trace = << >>

\* const sortedTweets = [...threadTweets].sort(...)
SortStep ==
  /\ pc = "sort"
  /\ sortedTweets' = SortTweets(threadTweets)
  /\ pc' = "sorted"
  /\ UNCHANGED << callFrame, mem, result, trace, idx, previousTweetId, results >>
  /\ UNCHANGED << ptwrFrame, storeFrame >>
  /\ UNCHANGED upload

SortNext == SortStep

SortSpec == SortInit /\ [][SortNext]_vars

\* ------------------------------------------------------------ uploadMediaToTwitter on its own
\* One call of uploadMediaToTwitter(imageUrl, accessToken) of mediaUpload.js,
\* every fetch one step.  The requests go to trace: "probe" (HEAD of the image),
\* "init", "fetch" (GET of the image), "append", "finalize", "status"; ok is
\* response.ok, id the media id of the INIT response (afterwards: the media id
\* the request names), txt the state of the processing_info of a FINALIZE /
\* STATUS response ("none": no processing_info) and whether the HEAD response
\* has a content-length.
ProcessingStates == {"pending", "in_progress", "succeeded", "failed"}
ProcessingInfos == {"none"} \cup ProcessingStates

UploadInit ==
  /\ op = "none"
  /\ options = [tweetId |-> 0, projectId |-> FALSE, text |-> NoText, groupId |-> 0,
                imageUrl |-> FALSE, mediaIds |-> FALSE, replyToTweetId |-> 0,
                userId |-> FALSE]
  /\ threadTweets = << >>
  /\ pc = "m_probe"
  /\ attempt = 0
  /\ retryCount = 0
  /\ accessToken = 1
  /\ newPair = NoPair
  /\ umPair = NoPair
  /\ mem = NoCreds
  /\ credStore = NoCreds
  /\ drafts = [i \in TweetIds |-> NoDraft]
  /\ cur = NoCur
  /\ payload = NoPayload
  /\ pubResult = NoResult
  /\ result = NoResult
  /\ sortedTweets = << >>
  /\ idx = 0
  /\ previousTweetId = 0
  /\ results = << >>
  /\ issued = 1
  /\ upload = NoUpload
  /\ trace = << >>

uploadFrame ==
  << op, options, threadTweets, attempt, retryCount, accessToken, newPair, umPair, mem,
     credStore, drafts, cur, payload, pubResult, result, sortedTweets, idx,
     previousTweetId, results, issued >>

\* a request of the upload, as it goes to trace
Request(k, ok) == Ev(k, accessToken, 0, ok, "media")

\* throw inside uploadMediaToTwitter: the catch rethrows the error
UploadError ==
  /\ pc' = "m_done"
  /\ upload' = [upload EXCEPT !.ret = "error"]

\* return mediaId
UploadReturn ==
  /\ pc' = "m_done"
  /\ upload' = [upload EXCEPT !.ret = "value"]

\* checkMediaProcessingStatus that polls whatever the state is
checkPollsAnyway(info) == pc' = "m_status" /\ upload' = upload

\* checkMediaProcessingStatus(mediaId, accessToken, processingInfo) up to its
\* fetch: return when the state is succeeded, else wait and poll
checkMediaProcessingStatus(info) ==
  IF info = "succeeded" THEN UploadReturn
  ELSE pc' = "m_status" /\ upload' = upload

\* a probe that goes on without a content-length
ProbeIgnoresLength ==
  /\ pc = "m_probe"
  /\ \E ok \in BOOLEAN, contentLength \in BOOLEAN :
       /\ ~ok => ~contentLength
       /\ trace' = Append(trace, [Request("probe", ok)
                                     EXCEPT !.tok = 0,
                                            !.txt = IF contentLength THEN "content-length"
                                                    ELSE "none"])
       /\ IF ok
          THEN pc' = "m_init" /\ upload' = upload
          ELSE UploadError
  /\ UNCHANGED uploadFrame

\* fetch(imageUrl, {method: 'HEAD'}) and the content-length check
Probe ==
  /\ pc = "m_probe"
  /\ \E ok \in BOOLEAN, contentLength \in BOOLEAN :
       /\ ~ok => ~contentLength
       /\ trace' = Append(trace, [Request("probe", ok)
                                     EXCEPT !.tok = 0,
                                            !.txt = IF contentLength THEN "content-length"
                                                    ELSE "none"])
       /\ IF ok /\ contentLength
          THEN pc' = "m_init" /\ upload' = upload
          ELSE UploadError
  /\ UNCHANGED uploadFrame

\* INIT request; the response must carry data.id
InitPhase ==
  /\ pc = "m_init"
  /\ \E ok \in BOOLEAN, hasId \in BOOLEAN :
       /\ trace' = Append(trace, [Request("init", ok)
                                     EXCEPT !.id = IF ok /\ hasId THEN MediaId ELSE 0])
       /\ IF ok /\ hasId
          THEN pc' = "m_fetch" /\ upload' = [upload EXCEPT !.mediaId = MediaId]
          ELSE UploadError
  /\ UNCHANGED uploadFrame

\* fetch(imageUrl): the image itself
FetchImage ==
  /\ pc = "m_fetch"
  /\ \E ok \in BOOLEAN :
       /\ trace' = Append(trace, [Request("fetch", ok) EXCEPT !.tok = 0])
       /\ IF ok THEN pc' = "m_append" /\ upload' = upload ELSE UploadError
  /\ UNCHANGED uploadFrame

\* APPEND request (one segment)
AppendPhase ==
  /\ pc = "m_append"
  /\ \E ok \in BOOLEAN :
       /\ trace' = Append(trace, [Request("append", ok) EXCEPT !.id = upload.mediaId])
       /\ IF ok THEN pc' = "m_finalize" /\ upload' = upload ELSE UploadError
  /\ UNCHANGED uploadFrame

\* FINALIZE request; processing_info in the response starts the polling
FinalizePhase ==
  /\ pc = "m_finalize"
  /\ \E ok \in BOOLEAN, info \in ProcessingInfos :
       /\ ~ok => info = "none"
       /\ trace' = Append(trace, [Request("finalize", ok)
                                     EXCEPT !.id = upload.mediaId, !.txt = info])
       /\ IF ~ok THEN UploadError
          ELSE IF info = "none" THEN UploadReturn
          ELSE checkMediaProcessingStatus(info)
  /\ UNCHANGED uploadFrame

\* STATUS request of checkMediaProcessingStatus after the wait, and the
\* recursive call on the processing_info of its response.  The recursion has
\* no depth limit; trace keeps the first MaxPolls polls one by one (att: the
\* number of the poll), and a later poll takes the place of the last record,
\* its number kept as MaxPolls or MaxPolls + 1 in turn.
StatusPoll ==
  /\ pc = "m_status"
  /\ \E ok \in BOOLEAN, info \in ProcessingInfos :
       /\ ~ok => info = "none"
       /\ LET polls == Cardinality(Events("status"))
              e == [Request("status", ok)
                      EXCEPT !.id = upload.mediaId, !.txt = info]
          IN  IF polls < MaxPolls
              THEN trace' = Append(trace, [e EXCEPT !.att = polls + 1])
              ELSE trace' = [trace EXCEPT ![Len(trace)] =
                               [e EXCEPT !.att = IF trace[Len(trace)].att = MaxPolls
                                                 THEN MaxPolls + 1
                                                 ELSE MaxPolls]]
       /\ IF ~ok THEN UploadError
          ELSE IF info = "none" THEN UploadReturn
          ELSE checkMediaProcessingStatus(info)
  /\ UNCHANGED uploadFrame

UploadNext ==
  \/ Probe
  \/ InitPhase
  \/ FetchImage
  \/ AppendPhase
  \/ FinalizePhase
  \/ StatusPoll

UploadSpec == UploadInit /\ [][UploadNext]_vars

\* every await of the upload is eventually resumed: each request gets its
\* response and each wait before a status request ends
FairUploadSpec == UploadSpec /\ WF_vars(UploadNext)

\* ------------------------------------------------------------ two calls at once
\* Two calls of publishTweet for the same user, each for a draft of its own
\* (call c publishes draft c), running on one event loop: a step is the code of
\* one call between two awaits.  pc, mem, attempt, newPair and pubResult hold
\* one value per call; credStore, issued and trace are shared (the credential
\* document, the provider's token endpoint, the calls made).  A call is
\* followed from its credential read; the access check and the document read
\* before publishTweetWithRefresh and the draft write after it do not touch
\* the credentials and are followed in Spec.  The drafts have text and no
\* image.  In trace, draft is the call that made the request.
Calls == {1, 2}

ConcInit ==
  /\ op = "one"
  /\ options = [tweetId |-> 0, projectId |-> TRUE, text |-> "a", groupId |-> 0,
                imageUrl |-> FALSE, mediaIds |-> FALSE, replyToTweetId |-> 0,
                userId |-> TRUE]
  /\ threadTweets = << >>
  /\ pc = [c \in Calls |-> "creds"]
  /\ attempt = [c \in Calls |-> 0]
  /\ retryCount = 0
  /\ accessToken = 0
  /\ newPair = [c \in Calls |-> NoPair]
  /\ umPair = NoPair
  /\ mem = [c \in Calls |-> NoCreds]
  /\ credStore = [exists |-> TRUE, accessToken |-> 1, refreshToken |-> 1, userId |-> FALSE]
  /\ drafts = [i \in TweetIds |-> ThreadDraft]
  /\ cur = NoCur
  /\ payload = NoPayload
  /\ pubResult = [c \in Calls |-> NoResult]
  /\ result = NoResult
  /\ sortedTweets = << >>
  /\ idx = 0
  /\ previousTweetId = 0
  /\ results = << >>
  /\ issued = 1
  /\ upload = NoUpload
  /\ trace = << >>

concFrame == << op, options, threadTweets, retryCount, accessToken, umPair, drafts,
                cur, payload, result, sortedTweets, idx, previousTweetId, results,
                upload >>

\* call c leaves publishTweetWithRefresh with result r
ConcReturn(c, r) ==
  /\ pc' = [pc EXCEPT ![c] = "done"]
  /\ pubResult' = [pubResult EXCEPT ![c] = r]

\* await this.getTwitterCredentials(userId) of call c, twitterCredentials.userId
\* = userId, and publishTweetWithRefresh up to its post call
ConcGetCreds(c) ==
  /\ pc[c] = "creds"
  /\ \E throws \in BOOLEAN :
       LET m == getTwitterCredentials(credStore, throws) IN
       /\ trace' = Append(trace, [Ev("credRead", 0, 0, ~throws, "-") EXCEPT !.draft = c])
       /\ IF ~m.exists
          THEN /\ ConcReturn(c, CredentialsNotFound)
               /\ UNCHANGED << mem, attempt >>
          ELSE /\ mem' = [mem EXCEPT ![c] = [m EXCEPT !.userId = TRUE]]
               /\ attempt' = [attempt EXCEPT ![c] = 1]
               /\ pc' = [pc EXCEPT ![c] = "post"]
               /\ pubResult' = pubResult
  /\ UNCHANGED << newPair, credStore, issued >>
  /\ UNCHANGED concFrame

\* await publishTweet(accessToken, tweetPayload) of call c and the catch
\* behind it
ConcPost(c) ==
  /\ pc[c] = "post"
  /\ \E out \in PostOutcomes :
       LET tok == IF attempt[c] = 1 THEN mem[c].accessToken ELSE newPair[c].accessToken
           id == IF out.hasId THEN NextPostId ELSE 0
           t == Catch(PostError(out.status, out.msg401), attempt[c], mem[c])
       IN
       /\ trace' = Append(trace, [Ev("post", tok, id, out.ok, "post") EXCEPT
                                    !.draft = c, !.att = attempt[c],
                                    !.st = IF out.ok THEN 200 ELSE out.status,
                                    !.txt = "a"])
       /\ IF out.ok THEN ConcReturn(c, Published(id, attempt[c]))
          ELSE IF t.pc = "p_refresh"
          THEN pc' = [pc EXCEPT ![c] = "p_refresh"] /\ pubResult' = pubResult
          ELSE ConcReturn(c, t.pubResult)
  /\ UNCHANGED << mem, attempt, newPair, credStore, issued >>
  /\ UNCHANGED concFrame

\* await refreshTwitterAccessToken(twitterCredentials) of call c: the refresh
\* token the call read from the store is submitted
ConcRefresh(c) ==
  /\ pc[c] = "p_refresh"
  /\ \E out \in RefreshOutcomes :
       LET r == refreshTwitterAccessToken(out, issued) IN
       /\ trace' = Append(trace, [Ev("refresh", mem[c].refreshToken, r.accessToken, r.ok, "post")
                                    EXCEPT !.draft = c, !.att = attempt[c], !.txt = out])
       /\ issued' = IF r.ok THEN issued + 1 ELSE issued
       /\ IF r.ok
          THEN /\ newPair' = [newPair EXCEPT ![c] =
                                [accessToken |-> r.accessToken, refreshToken |-> r.refreshToken]]
               /\ pc' = [pc EXCEPT ![c] = "p_persist"]
               /\ pubResult' = pubResult
          ELSE /\ ConcReturn(c, TokenExpired)
               /\ newPair' = newPair
  /\ UNCHANGED << mem, attempt, credStore >>
  /\ UNCHANGED concFrame

\* await this.updateTwitterCredentials(...) of call c, then the retry
ConcPersist(c) ==
  /\ pc[c] = "p_persist"
  /\ \E ok \in BOOLEAN :
       /\ trace' = Append(trace, [Ev("credWrite", newPair[c].accessToken,
                                    newPair[c].refreshToken, ok, "post")
                                    EXCEPT !.draft = c, !.att = attempt[c]])
       /\ IF ok
          THEN /\ credStore' = updateTwitterCredentials(credStore, newPair[c])
               /\ attempt' = [attempt EXCEPT ![c] = 2]
               /\ pc' = [pc EXCEPT ![c] = "post"]
               /\ pubResult' = pubResult
          ELSE /\ ConcReturn(c, TokenExpired)
               /\ UNCHANGED << credStore, attempt >>
  /\ UNCHANGED << mem, newPair, issued >>
  /\ UNCHANGED concFrame

ConcNext ==
  \/ \E c \in Calls : ConcGetCreds(c)
  \/ \E c \in Calls : ConcPost(c)
  \/ \E c \in Calls : ConcRefresh(c)
  \/ \E c \in Calls : ConcPersist(c)

ConcSpec == ConcInit /\ [][ConcNext]_vars

\* ============================================================ properties
Posts(att) == {i \in Events("post") : trace[i].att = att}
PostLevel(k) == {i \in Events(k) : trace[i].lvl = "post"}
After(i) == {j \in DOMAIN trace : j > i}
SinglePost == op \in {"one", "sched"}
Returned == pc \in {"ret", "mark", "done"}
Unchanged(d) == d.status = "draft" /\ d.publishedTweetId = 0 /\ d.publishedText = NoText

\* C1: in a single-post publish there is at most one post-level refresh and at
\* most one retried post call; a post call that failed with 401 while a
\* refresh token is held is followed by exactly one refresh attempt, a retried
\* post call only follows a successful refresh, it is made exactly once when
\* the refresh, the credential write and the payload preparation succeeded,
\* and after a failed retry no provider call is made any more.
C1_OneRefreshOneRetry ==
  SinglePost =>
    /\ Cardinality(Posts(1)) <= 1
    /\ Cardinality(Posts(2)) <= 1
    /\ Cardinality(PostLevel("refresh")) <= 1
    /\ \A i \in Posts(1) :
         (~trace[i].ok /\ trace[i].st = 401 /\ mem.refreshToken # 0 /\ pc # "p_refresh")
           => Cardinality(PostLevel("refresh")) = 1
    /\ \A j \in Posts(2) :
         /\ \E r \in PostLevel("refresh") :
              /\ r < j /\ trace[r].ok
              /\ \E i \in Posts(1) : i < r /\ ~trace[i].ok
         /\ ~trace[j].ok => \A n \in After(j) : ~IsProviderCall(trace[n])
    /\ ( /\ Returned
         /\ \E w \in PostLevel("credWrite") : trace[w].ok
         /\ ~cur.imageUrl \/ (\E u \in Events("upload") : trace[u].att = 2 /\ trace[u].ok) )
       => Cardinality(Posts(2)) = 1

C1_Witness ==
  /\ SinglePost /\ pc = "done"
  /\ \E i \in Posts(1) : trace[i].st = 401
  /\ \E j \in Posts(2) : ~trace[j].ok

\* C2: after a post call that failed with a status other than 401, or that
\* failed while no refresh token is held, no refresh and no further post call
\* is made and the failure is returned at once.
C2_RefreshOnlyOn401 ==
  \A i \in Events("post") :
    (~trace[i].ok /\ (trace[i].st # 401 \/ mem.refreshToken = 0))
      => /\ \A j \in After(i) : trace[j].k \notin {"refresh", "post"}
         /\ Returned => ~pubResult.success

\* C3: a retried post call is issued only after the write of the new token
\* pair to the credential store has completed (the store then holds that pair
\* or a newer one); after a failed post-level refresh or a failed write no
\* retried post call is issued and the publish returns a failure.
C3_PersistBeforeRetry ==
  /\ \A j \in Posts(2) :
       \E w \in PostLevel("credWrite") :
         /\ w < j /\ trace[w].ok
         /\ trace[w].tok = trace[j].tok
         /\ trace[w].draft = trace[j].draft
  /\ (pc = "post" /\ attempt = 2)
       => /\ credStore.accessToken >= newPair.accessToken
          /\ credStore.refreshToken >= newPair.refreshToken
          /\ newPair.accessToken # 0 /\ newPair.refreshToken # 0
  /\ \A r \in PostLevel("refresh") \cup PostLevel("credWrite") :
       ~trace[r].ok
         => /\ \A j \in Posts(2) : trace[j].draft # trace[r].draft
            /\ pc \in {"ret", "done"}
            /\ ~pubResult.success
            /\ pc = "done" => ~result.success

C3_Witness ==
  /\ pc = "done"
  /\ \E j \in Posts(2) : trace[j].ok

\* C4: once a refresh triggered by a 401 on a post call has succeeded and been
\* stored, the in-memory credentials hold the new pair and every later
\* provider call presents the new tokens, never the pre-refresh ones.
C4_NoStaleToken ==
  \A r \in PostLevel("refresh") :
    \A w \in PostLevel("credWrite") :
      (r < w /\ trace[r].ok /\ trace[w].ok /\ trace[w].tok = trace[r].id)
        => /\ mem.accessToken >= trace[r].id
           /\ mem.refreshToken >= trace[r].id
           /\ \A j \in After(w) : IsProviderCall(trace[j]) => trace[j].tok >= trace[r].id

\* C5: a single-post publish whose post call the provider accepted returns
\* success = true with the id the provider returned.
C5_AcceptedPostSucceeds ==
  (op = "one" /\ pc = "done" /\ (\E i \in Events("post") : trace[i].ok))
    => /\ result.success
       /\ \E i \in Events("post") : trace[i].ok /\ result.id = trace[i].id

\* C6: when the write that marks the draft as published fails after the
\* provider accepted the post, publishOne still returns success = true with
\* the provider post id.
C6_StoreFailureKeepsSuccess ==
  (op = "one" /\ pc = "done")
    => \A w \in Events("draftWrite") :
         ~trace[w].ok => result.success /\ result.id = trace[w].id

\* C7: a draft is written only after the provider accepted a post for that
\* draft in the same call, with exactly the provider id of that post; on every
\* failing path the draft is as it was.
C7_DraftWrittenOnlyOnSuccess ==
  /\ \A w \in Events("draftWrite") :
       \E i \in Events("post") :
         /\ i < w /\ trace[i].ok /\ trace[i].id # 0
         /\ trace[i].draft = trace[w].draft /\ trace[i].id = trace[w].id
  /\ \A t \in TweetIds :
       \/ Unchanged(drafts[t])
       \/ drafts[t] = PublishedDraft(t)
       \/ /\ drafts[t].status = "published"
          /\ \E i \in Events("post") :
               /\ trace[i].ok /\ trace[i].draft = t
               /\ trace[i].id = drafts[t].publishedTweetId /\ trace[i].id # 0
          /\ \E w \in Events("draftWrite") : trace[w].ok /\ trace[w].draft = t
  /\ (SinglePost /\ pc = "done" /\ ~result.success)
       => \A t \in TweetIds : Unchanged(drafts[t])
  /\ (op = "thread" /\ pc = "done")
       => \A n \in DOMAIN results :
            ~results[n].success =>
               \/ Unchanged(drafts[results[n].tweetId])
               \/ drafts[results[n].tweetId] = PublishedDraft(results[n].tweetId)

C7_Witness ==
  /\ pc = "done"
  /\ \E t \in TweetIds : drafts[t].status = "published" /\ drafts[t].publishedTweetId > ProviderBase
  /\ \E w \in Events("draftWrite") : ~trace[w].ok

\* C8: when content id, project id or text is missing, publishOne returns a
\* failure at once without calling any collaborator.
C8_ValidationFailsFast ==
  (op = "one" /\ (options.tweetId = 0 \/ ~options.projectId \/ options.text = NoText))
    => /\ pc = "done"
       /\ trace = << >>
       /\ ~result.success
       /\ result.message = "Missing required fields"

C8_Witness ==
  /\ op = "one" /\ pc = "done"
  /\ options.tweetId # 0 /\ options.projectId /\ options.text = NoText

\* C9: when the access check reports the user as not authorized, publishOne
\* and publishThread end with a failure carrying the access check's reason and
\* status code, and nothing is called after the access check.
C9_UnauthorizedTerminates ==
  \A i \in Events("access") :
    ~trace[i].ok
      => /\ pc = "done"
         /\ Len(trace) = i
         /\ ~result.success
         /\ result.message = trace[i].txt
         /\ result.details = trace[i].txt
         /\ trace[i].st # 0
         /\ op = "one" => result.code = StatusStr(trace[i].st)
         /\ op = "thread" => result.status = StatusStr(trace[i].st)

C9_Witness ==
  /\ op = "thread" /\ pc = "done"
  /\ \E i \in Events("access") : ~trace[i].ok /\ trace[i].st = 403

\* C10: publishing a post or a thread tagged with a disabled group makes no
\* call to the provider and returns success = false, on the single-post, the
\* scheduled and the thread path (for a thread: one that has a post left to
\* publish).
TaggedDisabled ==
  \/ SinglePost /\ options.groupId = DisabledGroup
  \/ op = "thread" /\ \E i \in DOMAIN threadTweets : threadTweets[i].groupId = DisabledGroup

C10_DisabledGroupNoProviderCall ==
  TaggedDisabled
    => /\ ProviderCalls = 0
       /\ (pc = "done" /\ (op = "thread" => \E i \in DOMAIN threadTweets :
                                               threadTweets[i].status # "published"))
            => ~result.success

\* C11: when the credential store has no record for the user, publishOne reads
\* the store once, makes no call after that read (no provider call, no
\* refresh, no second read) and returns a failure with code
\* credentials_not_found.
C11_NoRecordTerminates ==
  (op = "one" /\ ~credStore.exists)
    => /\ ProviderCalls = 0
       /\ Cardinality(Events("credRead")) <= 1
       /\ \A i \in Events("credRead") :
            /\ pc = "done"
            /\ Len(trace) = i
            /\ ~result.success
            /\ result.code = "credentials_not_found"

C11_Witness ==
  /\ op = "one" /\ pc = "done" /\ ~credStore.exists
  /\ \E i \in Events("credRead") : trace[i].ok

\* C12: a stored record that has an access token but no refresh token is
\* handled like an absent record: no provider call is made with it.
C12_UsableNeedsBothTokens ==
  ( /\ op \in {"one", "thread"}
    /\ credStore.exists /\ credStore.accessToken # 0 /\ credStore.refreshToken = 0 )
    => ProviderCalls = 0

\* the upload run u was the last one of its uploadMedia request and that
\* request is over: uploadMedia threw
MediaRunning(u) ==
  /\ pc \in {"um_run", "um_refresh", "um_persist"}
  /\ cur.tweetId = trace[u].draft /\ attempt = trace[u].att

MediaFailed(u) ==
  /\ trace[u].k = "upload" /\ ~trace[u].ok
  /\ ~MediaRunning(u)
  /\ \A v \in Events("upload") :
       (v > u /\ trace[v].draft = trace[u].draft) => trace[v].att # trace[u].att

\* C13: when the media upload of a draft fails (its own auth retry used up,
\* or a failure that is no auth error), the post endpoint is not called for
\* that draft in that attempt, no post-level refresh follows the media
\* failure, and the publish returns a failure.
C13_MediaFailureIsTerminal ==
  \A u \in DOMAIN trace :
    MediaFailed(u)
      => /\ \A j \in Events("post") :
              trace[j].draft = trace[u].draft => trace[j].att # trace[u].att
         /\ \A r \in PostLevel("refresh") : r < u
         /\ \A n \in After(u) : trace[n].k \notin {"post", "upload"}
         /\ pc \in {"ret", "done"}
         /\ ~pubResult.success
         /\ pc = "done" => ~result.success

C13_Witness ==
  /\ pc = "done"
  /\ \E u \in DOMAIN trace :
       /\ MediaFailed(u)
       /\ \E r \in Events("refresh") : r < u /\ trace[r].lvl = "media" /\ trace[r].ok

\* C14: for one uploadMedia request (one draft in one attempt of the publish)
\* the upload protocol is run at most twice and at most one token refresh is
\* made.
UploadRuns(d, a) == {u \in Events("upload") : trace[u].draft = d /\ trace[u].att = a}
MediaRefreshes(d, a) ==
  {r \in Events("refresh") :
     trace[r].lvl = "media" /\ trace[r].draft = d /\ trace[r].att = a}

C14_UploadRetryBudget ==
  \A d \in TweetIds, a \in {1, 2} :
    /\ Cardinality(UploadRuns(d, a)) <= 2
    /\ Cardinality(MediaRefreshes(d, a)) <= 1

\* position of the tweet d in the sorted order of the running thread
SortedPos(d) == CHOOSE i \in DOMAIN sortedTweets : sortedTweets[i].tweetId = d
DraftEvents == {e \in DOMAIN trace : trace[e].draft # 0}

\* C15: in publishThread, once the publish of a post has failed (a failure
\* result or a thrown error, either of which leaves a failed entry in the
\* results), the call is over and no upload, refresh, post or draft write was
\* made for a post that comes later in the sorted order; the stored drafts of
\* the later posts are as they were.
C15_StopAtFirstFailure ==
  op = "thread" =>
    /\ (pc = "ret" /\ ~pubResult.success)
         => \A e \in DraftEvents : SortedPos(trace[e].draft) <= idx
    /\ \A n \in DOMAIN results :
         ~results[n].success
           => /\ pc = "done"
              /\ n = Len(results)
              /\ \A e \in DraftEvents :
                   SortedPos(trace[e].draft) <= SortedPos(results[n].tweetId)
              /\ \A i \in DOMAIN sortedTweets :
                   i > SortedPos(results[n].tweetId)
                     => drafts[sortedTweets[i].tweetId] \in
                          {ThreadDraft, PublishedDraft(sortedTweets[i].tweetId)}

C15_Witness ==
  /\ op = "thread" /\ pc = "done"
  /\ \E n \in DOMAIN results :
       /\ ~results[n].success
       /\ SortedPos(results[n].tweetId) < Len(sortedTweets)
       /\ sortedTweets[Len(sortedTweets)].status # "published"
       /\ \E e \in Events("post") : trace[e].draft = results[n].tweetId /\ ~trace[e].ok

\* C16: in publishThread the post calls are made one after the other in
\* sorted order; the post call for the first post of the sorted order carries
\* no reply target, and the post call for any other post carries the provider
\* id of the post right before it in sorted order: the id that post was
\* published under earlier, or the id the provider returned for it in this
\* call, in which case that post's call has returned and its draft write has
\* been made before the next post call is issued.
C16_SerialReplyChain ==
  op = "thread" =>
    \A j \in Events("post") :
      LET p == SortedPos(trace[j].draft) IN
      /\ \A i \in Events("post") : i < j => SortedPos(trace[i].draft) <= p
      /\ p = 1 => trace[j].reply = 0
      /\ p > 1 =>
           LET t == sortedTweets[p - 1] IN
           /\ trace[j].reply # 0
           /\ IF t.status = "published"
              THEN trace[j].reply = t.publishedTweetId
              ELSE \E i \in Events("post") :
                     /\ i < j /\ trace[i].draft = t.tweetId
                     /\ trace[i].ok /\ trace[i].id = trace[j].reply
                     /\ \E w \in Events("draftWrite") :
                          i < w /\ w < j /\ trace[w].draft = t.tweetId

C16_Witness ==
  /\ op = "thread" /\ pc = "done"
  /\ \E j \in Events("post") :
       /\ SortedPos(trace[j].draft) = 2
       /\ trace[j].reply > ProviderBase
       /\ trace[j].att = 2

\* the post at position i of the sorted order was attempted in this call
Attempted(i) == \E n \in DOMAIN results : results[n].tweetId = sortedTweets[i].tweetId
LoopRan == op = "thread" /\ pc = "done" /\ sortedTweets # << >>

\* C17: when the loop of publishThread has run, the result's success flag is
\* true exactly when every attempted post succeeded and every post of the
\* thread was attempted or was already published; in particular success is
\* false whenever the loop stopped before the last post.
C17_SuccessIffAllPublished ==
  LoopRan =>
    ( result.success <=>
        /\ \A n \in DOMAIN results : results[n].success
        /\ \A i \in DOMAIN sortedTweets :
             sortedTweets[i].status = "published" \/ Attempted(i) )

\* C18: when the loop of publishThread stopped at a failing post, the one at
\* position k of the N sorted posts, the result classifies the outcome as
\* partially published when k-1 is at least 1 and as failed outright only
\* when k-1 is 0, and the count it reports is k-1; posts published by an
\* earlier call count as published.
C18_PublishedCountAndClass ==
  LoopRan =>
    \A n \in DOMAIN results :
      ~results[n].success =>
        LET k == SortedPos(results[n].tweetId) IN
        /\ k - 1 >= 1 => result.message = "Thread publishing stopped"
        /\ k - 1 = 0 => result.message = "Failed to publish thread"
        /\ result.message = "Thread publishing stopped" => result.id = k - 1

\* C19: publishThread on a thread with posts already marked published makes
\* no provider call, no credential write and no draft write for any of them,
\* and leaves their drafts as they are; the first unpublished post after a
\* published prefix is sent with the provider id of the last post of that
\* prefix as its reply target.
C19_ReentrySkipsPublished ==
  op = "thread" =>
    /\ \A i \in DOMAIN threadTweets :
         threadTweets[i].status = "published"
           => /\ \A e \in DOMAIN trace : trace[e].draft # threadTweets[i].tweetId
              /\ drafts[threadTweets[i].tweetId] = PublishedDraft(threadTweets[i].tweetId)
    /\ \A j \in Events("post") :
         LET p == SortedPos(trace[j].draft) IN
         (p > 1 /\ \A q \in 1 .. (p - 1) : sortedTweets[q].status = "published")
           => trace[j].reply = sortedTweets[p - 1].publishedTweetId

C19_Witness ==
  /\ op = "thread" /\ pc = "done" /\ result.success
  /\ Len(sortedTweets) = 2
  /\ sortedTweets[1].status = "published"
  /\ sortedTweets[1].tweetId = 2
  /\ \E j \in Events("post") :
       trace[j].draft = 1 /\ trace[j].ok /\ trace[j].reply = PublishedBase + 2

\* the position a tweet declares, a missing one counting as 0
DeclaredPos(t) == IF t.threadPosition = NoPos THEN 0 ELSE t.threadPosition
PlaceIn(st, t) == CHOOSE i \in DOMAIN st : st[i] = t

\* st holds the tweets of the input in ascending declared position, tweets of
\* equal position in their input order
StableAscending(st, input) ==
  /\ Len(st) = Len(input)
  /\ {st[i] : i \in DOMAIN st} = {input[i] : i \in DOMAIN input}
  /\ \A i, j \in DOMAIN st : i < j => DeclaredPos(st[i]) <= DeclaredPos(st[j])
  /\ \A i, j \in DOMAIN input :
       (i < j /\ DeclaredPos(input[i]) = DeclaredPos(input[j]))
         => PlaceIn(st, input[i]) < PlaceIn(st, input[j])

\* C20: the sort of publishThread leaves the caller's sequence as it is and
\* yields the order the loop takes the posts in: ascending declared position,
\* a post without a position counting as position 0, posts of equal position
\* in their input order.
C20_StableSortNotInPlace ==
  [][ pc = "sort" => /\ threadTweets' = threadTweets
                     /\ StableAscending(sortedTweets', threadTweets) ]_vars

C20_Witness ==
  /\ pc = "sorted"
  /\ Len(threadTweets) = 3
  /\ threadTweets[1].threadPosition = 1
  /\ threadTweets[2].threadPosition = NoPos
  /\ threadTweets[3].threadPosition = 0
  /\ sortedTweets[1].tweetId = 2 /\ sortedTweets[2].tweetId = 3 /\ sortedTweets[3].tweetId = 1

\* C21: every call of publishOne and publishThread that has ended has
\* returned a result with a message, whatever its collaborators did; when the
\* last collaborator call of the call failed (a throwing store read or write,
\* a provider error, a failed refresh, a failed media upload, a denied access
\* check), that result has success = false.
C21_NoExceptionEscapes ==
  (op \in {"one", "thread"} /\ pc = "done")
    => /\ result.returned
       /\ result.message # "none"
       /\ (trace # << >> /\ ~trace[Len(trace)].ok) => ~result.success

C21_Witness ==
  /\ op = "one" /\ pc = "done"
  /\ trace # << >>
  /\ trace[Len(trace)].k = "docRead" /\ ~trace[Len(trace)].ok

\* C22: when the post call was rejected with a status s other than 401 and
\* the publish returned on that rejection, the result carries code api_error
\* and a status field equal to s.
C22_ApiErrorKeepsStatus ==
  \A i \in Posts(1) :
    (~trace[i].ok /\ trace[i].st # 401 /\ i = Len(trace) /\ Returned)
      => /\ pubResult.code = "api_error"
         /\ pubResult.status = StatusStr(trace[i].st)

\* C23: a call of the token refresh client is one token exchange; it hands
\* back a pair only when the response had a success status and both tokens,
\* and then both tokens are newly minted ones (no default, not the token
\* submitted); after any other response it hands back nothing: no pair is
\* stored or used, and the exchange is not repeated.
C23_RefreshAllOrNothing ==
  \A r \in Events("refresh") :
    /\ trace[r].ok <=> trace[r].txt = "ok"
    /\ trace[r].ok => trace[r].id > trace[r].tok /\ trace[r].tok # 0
    /\ ~trace[r].ok =>
         /\ trace[r].id = 0
         /\ \A n \in After(r) :
              trace[n].draft = trace[r].draft => trace[n].k \notin {"refresh", "credWrite"}
    /\ \A w \in Events("credWrite") : trace[w].tok # 0 /\ trace[w].id # 0

C23_Witness ==
  /\ pc = "done"
  /\ \E r \in Events("refresh") : trace[r].txt = "no_refresh_token"
  /\ \E r \in Events("refresh") : trace[r].ok

\* the request e did not get what its phase needs
PhaseFailed(e) ==
  \/ ~e.ok
  \/ e.k = "probe" /\ e.txt = "none"
  \/ e.k = "init" /\ e.id = 0

\* the kind of the n-th request of an upload (the image is downloaded between
\* INIT and APPEND, as the first half of the append phase)
PhaseOrder(n) ==
  CASE n = 1 -> "probe"
    [] n = 2 -> "init"
    [] n = 3 -> "fetch"
    [] n = 4 -> "append"
    [] n = 5 -> "finalize"
    [] OTHER -> "status"

\* C24: one media upload issues its requests in the order probe, init,
\* (image download and) append, finalize, then status polls, each of the
\* first four once at most and each only after the request before it
\* succeeded; a failure in any phase, a probe without content-length and an
\* init response without media id included, ends the call with an error and
\* no further request.
C24_UploadPhaseOrder ==
  /\ \A n \in DOMAIN trace :
       /\ trace[n].k = PhaseOrder(n)
       /\ n > 1 => ~PhaseFailed(trace[n - 1])
       /\ PhaseFailed(trace[n])
            => n = Len(trace) /\ pc = "m_done" /\ upload.ret = "error"
  /\ upload.ret = "value" => Len(trace) >= 5

C24_Witness ==
  /\ pc = "m_done" /\ upload.ret = "error"
  /\ Len(trace) = 2
  /\ trace[2].ok /\ trace[2].id = 0

\* C25: when the finalize response reports the state pending and the first
\* status response the state succeeded, the upload returns the media id of the
\* init response after exactly one status poll; when the finalize response
\* has no processing info or reports succeeded, it returns that id with no
\* poll at all.
C25_PollUntilSucceeded ==
  \A f \in Events("finalize") :
    /\ (trace[f].ok /\ trace[f].txt \in {"none", "succeeded"})
         => /\ pc = "m_done" /\ upload.ret = "value"
            /\ upload.mediaId = trace[2].id /\ upload.mediaId # 0
            /\ Events("status") = {}
    /\ ( /\ trace[f].txt = "pending"
         /\ Len(trace) > f /\ trace[f + 1].ok /\ trace[f + 1].txt = "succeeded" )
         => /\ pc = "m_done" /\ upload.ret = "value"
            /\ upload.mediaId = trace[2].id /\ upload.mediaId # 0
            /\ Cardinality(Events("status")) = 1

C25_Witness ==
  /\ pc = "m_done" /\ upload.ret = "value"
  /\ \E f \in Events("finalize") : trace[f].txt = "pending"
  /\ Cardinality(Events("status")) = 1
  /\ \E t \in Events("status") : trace[t].txt = "succeeded"

\* C26: when the finalize response or a status response reports the state
\* failed, the upload ends with an error: the media id is not returned and no
\* further status request is made.
C26_FailedProcessingIsError ==
  \A e \in Events("finalize") \cup Events("status") :
    trace[e].txt = "failed"
      => /\ e = Len(trace)
         /\ pc = "m_done"
         /\ upload.ret = "error"

\* C27: within one publish of a draft the media upload protocol is not run
\* again once it has succeeded: the retry after a 401 on the post call
\* re-issues the post call only.
C27_RetryReusesMedia ==
  \A u \in Events("upload") :
    trace[u].ok
      => \A v \in Events("upload") : v > u => trace[v].draft # trace[u].draft

\* C28: a publishOne call eventually returns when every collaborator call
\* returns and the media processing reports a terminal state.  publishOne
\* awaits the media upload, so this needs the upload to return: when the
\* latest finalize or status response reports a terminal processing state
\* (succeeded or failed), the upload eventually returns or throws, unless a
\* later response reports a state that is not terminal.
TerminalReported ==
  /\ trace # << >>
  /\ trace[Len(trace)].k \in {"finalize", "status"}
  /\ trace[Len(trace)].txt \in {"succeeded", "failed"}

C28_PublishReturns == TerminalReported ~> (pc = "m_done" \/ ~TerminalReported)

\* C29: a step of a publish or thread call changes the stored credentials
\* only when the call made right before it was a token refresh that
\* succeeded, and then it replaces the stored access and refresh token by the
\* pair that refresh returned and nothing else; every attempted write comes
\* right after a successful refresh, with that pair.
LastCall == trace[Len(trace)]

C29_StoreWrittenOnlyAfterRefresh ==
  [][ /\ credStore' # credStore
        => /\ trace # << >>
           /\ LastCall.k = "refresh" /\ LastCall.ok
           /\ credStore' = [credStore EXCEPT !.accessToken = LastCall.id,
                                             !.refreshToken = LastCall.id]
      /\ (Len(trace') > Len(trace) /\ trace'[Len(trace')].k = "credWrite")
        => /\ trace # << >>
           /\ LastCall.k = "refresh" /\ LastCall.ok
           /\ trace'[Len(trace')].tok = LastCall.id
           /\ trace'[Len(trace')].id = LastCall.id ]_vars

C29_Witness ==
  /\ pc = "done"
  /\ credStore.accessToken = 3 /\ credStore.refreshToken = 3
  /\ \E r \in Events("refresh") : ~trace[r].ok

\* C30: a publish result with code token_expired is returned only when the
\* post-level refresh failed or the retried post call was rejected with 401
\* (calls made with the user id known, so that the refresh can be stored); a
\* retried post call rejected with another status, a failed credential write
\* and a media failure during the retry are not reported as token_expired.
C30_TokenExpiredMeansAuthFailed ==
  (Returned /\ pubResult.code = "token_expired" /\ mem.userId)
    => \/ \E r \in PostLevel("refresh") :
            trace[r].draft = cur.tweetId /\ ~trace[r].ok
       \/ \E j \in Posts(2) :
            trace[j].draft = cur.tweetId /\ ~trace[j].ok /\ trace[j].st = 401

\* C31: the results list of publishThread has at most one entry for each post
\* of the thread, the entries follow the sorted order, and an entry with
\* success = true has no second entry for the same post; a draft write that
\* throws after an accepted post included.
C31_OneEntryPerPost ==
  op = "thread" =>
    \A i, j \in DOMAIN results :
      i < j => /\ results[i].tweetId # results[j].tweetId
               /\ SortedPos(results[i].tweetId) < SortedPos(results[j].tweetId)

\* C32: in publishOne the text recorded on the draft as published text is the
\* text that was sent to the provider in the accepted post call, whether or
\* not the stored draft's text is the text of the caller's options.
C32_RecordedTextIsPostedText ==
  (op = "one" /\ drafts[OneId].status = "published")
    => \E p \in Events("post") :
         /\ trace[p].ok
         /\ trace[p].id = drafts[OneId].publishedTweetId
         /\ trace[p].txt = drafts[OneId].publishedText

\* C33: when two publish calls for the same user run at once and both get a
\* 401, the two calls never submit the same refresh token to the token
\* endpoint, and once both calls are over (no credential write having failed)
\* the credential store holds the pair that the last successful refresh
\* returned.
SuccessfulRefreshes == {r \in Events("refresh") : trace[r].ok}
LastRefresh == CHOOSE r \in SuccessfulRefreshes : \A q \in SuccessfulRefreshes : q <= r

C33_NoSharedRefreshToken ==
  /\ \A r, q \in Events("refresh") :
       trace[r].draft # trace[q].draft => trace[r].tok # trace[q].tok
  /\ ( /\ \A c \in Calls : pc[c] = "done"
       /\ SuccessfulRefreshes # {}
       /\ \A w \in Events("credWrite") : trace[w].ok )
       => /\ credStore.accessToken = trace[LastRefresh].id
          /\ credStore.refreshToken = trace[LastRefresh].id

====
